---- MODULE Spec2Model ----
(***************************************************************************)
(* IPbus control-plane client: the packet builder IPbusControlPacket and   *)
(* the exchange engine IPbusTarget.                                        *)
(*                                                                         *)
(* A 32-bit word is the pair <<hi, lo>> of its two 16-bit halves, so that  *)
(* every word of the protocol (0xFFFFFFFF included) is representable.      *)
(* The transaction header splits exactly at bit 16:                        *)
(*   hi = ProtocolVersion:4 | TransactionID:12                             *)
(*   lo = Words:8 | TypeID:4 | InfoCode:4                                  *)
(***************************************************************************)
EXTENDS Integers, Sequences, FiniteSets, TLC

----------------------------------------------------------------------------
(* Program constants *)

maxPacket == 368
wordSize == 4

control == 0
status == 1

ipread == 0
ipwrite == 1
nonIncrementingRead == 2
nonIncrementingWrite == 3
RMWbits == 4
RMWsum == 5
configurationRead == 6
configurationWrite == 7

networkError == 0
IPbusError == 1
logicError == 2

----------------------------------------------------------------------------
(* Bounds of the model *)

\* calls of addTransaction in the life of one packet
MaxAdds == 2
\* calls made on one target in its life
MaxCalls == 3
\* responses validated in the life of one packet
MaxReplies == 1
\* calls that change bits of a register, of a packet and a target together
MaxBitCalls == 1

----------------------------------------------------------------------------
(* Header codec *)

Pow2(n) == CASE n = 0 -> 1 [] n = 1 -> 2 [] n = 2 -> 4 [] n = 3 -> 8
             [] n = 4 -> 16 [] n = 5 -> 32 [] n = 6 -> 64 [] n = 7 -> 128
             [] n = 8 -> 256 [] n = 9 -> 512 [] n = 10 -> 1024
             [] n = 11 -> 2048 [] n = 12 -> 4096 [] n = 13 -> 8192
             [] n = 14 -> 16384 [] n = 15 -> 32768 [] n = 16 -> 65536

PacketHeader(type, id) ==
    <<2 * 4096 + (id \div 256), (id % 256) * 256 + 15 * 16 + (type % 16)>>

TransactionHeader(type, nWords, id) ==
    <<2 * 4096 + (id % 4096), (nWords % 256) * 256 + (type % 16) * 16>>

ProtocolVersion(w) == w[1] \div 4096
TransactionID(w) == w[1] % 4096
Words(w) == w[2] \div 256
TypeID(w) == (w[2] \div 16) % 16
InfoCode(w) == w[2] % 16

\* the same header carrying another info code
WithInfoCode(w, code) == <<w[1], (w[2] \div 16) * 16 + code>>

----------------------------------------------------------------------------
(* 32-bit arithmetic on <<hi, lo>> *)

RECURSIVE And16(_, _, _)
And16(a, b, n) ==
    IF n = 0 THEN 0
    ELSE (IF a % 2 = 1 /\ b % 2 = 1 THEN 1 ELSE 0)
         + 2 * And16(a \div 2, b \div 2, n - 1)

And32(a, b) == <<And16(a[1], b[1], 16), And16(a[2], b[2], 16)>>
Not32(a) == <<65535 - a[1], 65535 - a[2]>>

\* a << s for 0 <= s <= 31, bits shifted out of the word are lost
Shl32(a, s) ==
    IF s >= 16
    THEN <<(a[2] * Pow2(s - 16)) % 65536, 0>>
    ELSE <<(((a[1] * Pow2(s)) % 65536) + ((a[2] * Pow2(s)) \div 65536)) % 65536,
           (a[2] * Pow2(s)) % 65536>>

\* (1 << nbits) - 1 for 0 <= nbits <= 31, as a quint32: the int 1 << 31 - 1
\* wraps to 0x7FFFFFFF
LowMask(nbits) ==
    IF nbits <= 16 THEN <<0, Pow2(nbits) - 1>>
    ELSE <<Pow2(nbits - 16) - 1, 65535>>

Inc16(x, n) == (x + n) % 65536

----------------------------------------------------------------------------
(* Inputs of the model *)

ReadTypes == {ipread, nonIncrementingRead, configurationRead}
WriteTypes == {ipwrite, nonIncrementingWrite, configurationWrite}
TypeInputs == ReadTypes \cup WriteTypes \cup {RMWbits, RMWsum}
\* <<type, nWords>> of the transactions added: every type with 0 and 1
\* words, and the block sizes that fill the packet (1 + 257 + 110 = 368)
TxnInputs == (TypeInputs \X {0, 1}) \cup ({ipread, ipwrite} \X {108, 255})
\* <<type, nWords>> of the transactions a target is given
TgtTxnInputs == {<<ipread, 2>>, <<RMWbits, 1>>, <<ipwrite, 255>>}
AddressInputs == {<<0, 4096>>}
DataInputs == {<<0, 42>>}
\* what uninitialised memory may hold
Garbage == {<<0, 0>>, <<8192, 16>>}

\* a pointer: the segment it points into and the word offset in it
Ptr(seg, off) == [seg |-> seg, off |-> off]
\* the data argument of addTransaction: the pointer and the words behind it
DataArg(ptr, words) == [ptr |-> ptr, words |-> words]
\* the caller's array for a transaction of the given type: destination of
\* nWords words for a read, source words otherwise
CallerData(type, nWords, slot, fill) ==
    DataArg(Ptr("user", slot),
            [i \in 1 .. (IF type = RMWbits /\ nWords < 2 THEN 2
                         ELSE IF nWords < 1 THEN 1 ELSE nWords) |-> fill])

Signal(sig, msg, arg) == [sig |-> sig, msg |-> msg, arg |-> arg]

----------------------------------------------------------------------------
(* Word arrays of maxPacket words.  An array is held as the sequence of    *)
(* its words up to the last one ever stored (word i at position i + 1);    *)
(* the words behind it are uninitialised and read as junk.                 *)

Min(a, b) == IF a < b THEN a ELSE b
Max(a, b) == IF a > b THEN a ELSE b

Fetch(buf, i, junk) == IF i < Len(buf) THEN buf[i + 1] ELSE junk

\* buf[at], buf[at + 1], ... = ws, for the indices inside the array
Splice(buf, at, ws, junk) ==
    LET n == Max(0, Min(Len(ws), maxPacket - at))
        padded == IF Len(buf) < at
                  THEN buf \o [k \in 1 .. (at - Len(buf)) |-> junk]
                  ELSE buf
    IN  IF n = 0 THEN buf
        ELSE SubSeq(padded, 1, at) \o SubSeq(ws, 1, n)
             \o SubSeq(padded, at + n + 1, Len(padded))

\* the words of ws that a store at index `at` puts behind the end of the array
Outside(at, ws) == SubSeq(ws, Max(1, maxPacket - at + 1), Len(ws))

----------------------------------------------------------------------------
(* IPbusControlPacket *)

VARIABLES packet, pktOp, pktAdds, pktReplies

pktVars == <<packet, pktOp, pktAdds, pktReplies>>

\* the IPbusTarget of the specification SpecTarget
VARIABLES target, tgtOp, tgtCalls

tgtVars == <<target, tgtOp, tgtCalls>>

\* emit error(...): the only slot connected is debugPrint, which prints
PktEmit(p, s) == [p EXCEPT !.signals = Append(@, s)]

\* request[requestSize++] = w for each w of ws in turn.  A store at an index
\* >= maxPacket is outside the array: with alias it lands in the member
\* declared next to it (response), otherwise it is not seen again.
WriteRequest(p, ws, alias) ==
    LET rs == p.requestSize
        out == Outside(rs, ws)
    IN  [p EXCEPT
            !.request = Splice(p.request, rs, ws, p.junk),
            !.response = IF alias /\ out # <<>>
                         THEN Splice(p.response, Max(0, rs - maxPacket), out, p.junk)
                         ELSE p.response,
            !.oob = p.oob \/ out # <<>>,
            !.requestSize = Inc16(rs, Len(ws))]

masks(p, mask0, mask1) == [p EXCEPT !.dt = <<mask0, mask1>>]

AddTransaction(p, type, address, data, nWords, alias) ==
    LET p1 == WriteRequest(p,
                  <<TransactionHeader(type, nWords, Len(p.transactionsList))>>,
                  alias)
        p2 == WriteRequest(p1, <<address>>, alias)
        p3 == [p2 EXCEPT !.responseSize = Inc16(p2.responseSize, 1)]
        p4 == CASE type \in ReadTypes ->
                     [p3 EXCEPT !.responseSize = Inc16(p3.responseSize, nWords)]
                [] type \in WriteTypes ->
                     WriteRequest(p3, SubSeq(data.words, 1, nWords), alias)
                [] type = RMWbits ->
                     [WriteRequest(p3, <<data.words[1], data.words[2]>>, alias)
                        EXCEPT !.responseSize = Inc16(p3.responseSize, 1)]
                [] type = RMWsum ->
                     [WriteRequest(p3, <<data.words[1]>>, alias)
                        EXCEPT !.responseSize = Inc16(p3.responseSize, 1)]
                [] OTHER ->
                     PktEmit(p3, Signal("error", "unknown transaction type", IPbusError))
        currentTransaction ==
            [requestHeader |-> p.requestSize,
             address |-> p1.requestSize,
             responseHeader |-> p2.responseSize,
             data |-> CASE type \in ReadTypes -> data.ptr
                        [] type \in WriteTypes -> Ptr("request", p3.requestSize)
                        [] type \in {RMWbits, RMWsum} -> Ptr("response", p3.responseSize)
                        [] OTHER -> Ptr("uninit", 0)]
    IN  IF p4.requestSize > maxPacket \/ p4.responseSize > maxPacket
        THEN PktEmit(p4, Signal("error", "packet size exceeded", IPbusError))
        ELSE [p4 EXCEPT !.transactionsList = Append(@, currentTransaction)]

addWordToWrite(p, address, value, alias) ==
    AddTransaction(p, ipwrite, address, DataArg(Ptr("local", 0), <<value>>), 1, alias)

addNBitsToChange(p, address, data, nbits, shift, alias) ==
    IF nbits = 32
    THEN AddTransaction(p, ipwrite, address, DataArg(Ptr("local", 0), <<data>>), 1, alias)
    ELSE LET mask == LowMask(nbits)
             m0 == Not32(Shl32(mask, shift))
             m1 == Shl32(And32(data, mask), shift)
         IN  AddTransaction(masks(p, m0, m1), RMWbits, address,
                            DataArg(Ptr("dt", 0), <<m0, m1>>), 1, alias)

reset(p) ==
    [p EXCEPT !.transactionsList = <<>>, !.requestSize = 1, !.responseSize = 1]

\* memcpy(data, th + 1, n * wordSize): ws are the n words copied
\* a copy that drops the words it is given
PktStoreDataNone(p, ptr, ws) == p
PktStoreData(p, ptr, ws) ==
    CASE ptr.seg = "null" -> p
      [] ptr.seg = "user" ->
           [p EXCEPT !.dest[ptr.off] =
                         SubSeq(ws, 1, Min(Len(ws), Len(@)))
                         \o SubSeq(@, Len(ws) + 1, Len(@)),
                     !.oob = @ \/ Len(ws) > Len(p.dest[ptr.off])]
      [] OTHER -> [p EXCEPT !.oob = @ \/ ws # <<>>]

\* a signal emitted while the loop of processResponse is at transaction i
PktEmitAt(p, s, i) == [PktEmit(p, s) EXCEPT !.who = Append(@, i)]

\* one turn of the loop of processResponse and the turns after it;
\* ret = FALSE is the return false of the turn that failed, whose index is
\* added to failed.
\* wordsAhead is a quint32: response + responseSize - th - 1 below zero wraps
\* to a value above every th->Words, so the test of line 132 is then false.
\* fetched is the highest index of response the call has read.
RECURSIVE PktProcessFrom(_, _)
PktProcessFrom(q, i) ==
    IF i >= Len(q.transactionsList) THEN [q EXCEPT !.ret = TRUE]
    ELSE
    LET tr == q.transactionsList[i + 1]
        at == tr.responseHeader
        p == [q EXCEPT !.fetched = Max(@, at)]
        th == Fetch(p.response, at, p.junk)
        rh == Fetch(p.request, tr.requestHeader, p.junk)
        wordsAhead == p.responseSize - at - 1
        fail(u) == [u EXCEPT !.ret = FALSE, !.failed = Append(@, i)]
        go(u) == [u EXCEPT !.ret = TRUE]
        copy(n) == IF tr.data.seg # "null"
                   THEN PktStoreData([p EXCEPT !.oob = @ \/ at + n >= maxPacket,
                                               !.fetched = Max(@, at + n)],
                            tr.data,
                            [k \in 1 .. n |-> Fetch(p.response, at + k, p.junk)])
                   ELSE p
        afterRead ==
            IF wordsAhead >= 0 /\ Words(th) > wordsAhead
            THEN LET u == PktEmitAt(copy(wordsAhead),
                                    Signal("successfulRead", "", wordsAhead), i)
                 IN  fail(IF InfoCode(th) = 0
                          THEN PktEmitAt(u, Signal("error",
                                   "read transaction truncated", IPbusError), i)
                          ELSE u)
            ELSE go(PktEmitAt(copy(Words(th)),
                              Signal("successfulRead", "", Words(th)), i))
        afterSwitch ==
            IF Words(th) > 0
            THEN CASE TypeID(th) \in ReadTypes -> afterRead
                   [] TypeID(th) \in {RMWbits, RMWsum} ->
                        IF Words(th) # 1
                        THEN fail(PktEmitAt(p, Signal("error",
                                      "wrong RMW transaction", IPbusError), i))
                        ELSE go(PktEmitAt(
                                  PktEmitAt(p, Signal("successfulRead", "", 1), i),
                                  Signal("successfulWrite", "", Words(th)), i))
                   [] TypeID(th) \in WriteTypes ->
                        go(PktEmitAt(p, Signal("successfulWrite", "", Words(th)), i))
                   [] OTHER ->
                        fail(PktEmitAt(p, Signal("error",
                                 "unknown transaction type", IPbusError), i))
            ELSE go(p)
    IN  IF ProtocolVersion(th) # 2 \/ TransactionID(th) # i
           \/ TypeID(th) # TypeID(rh)
        THEN fail(PktEmitAt(p, Signal("error", "unexpected transaction header",
                                      IPbusError), i))
        ELSE IF ~afterSwitch.ret THEN afterSwitch
        ELSE IF InfoCode(th) # 0
        THEN fail(PktEmitAt(afterSwitch, Signal("error", "info code", IPbusError), i))
        ELSE PktProcessFrom(afterSwitch, i + 1)

\* a validator that goes on with the next transaction after one has failed
processResponseGoesOn(p) ==
    LET u == PktProcessFrom(p, 0)
    IN  IF u.ret THEN u
        ELSE [PktProcessFrom(u, u.failed[1] + 1) EXCEPT !.ret = FALSE]
processResponse(p) == PktProcessFrom(p, 0)

\* the observations of one call start empty
PktCall(p) ==
    [p EXCEPT !.signals = <<>>, !.who = <<>>, !.failed = <<>>, !.oob = FALSE,
              !.ret = FALSE, !.args = <<>>, !.fetched = -1]

PktNew(g) ==
    /\ packet = [requestSize |-> 1, responseSize |-> 1,
                request |-> <<PacketHeader(control, 0)>>,
                response |-> <<>>,
                dt |-> <<g, g>>,
                junk |-> g,
                transactionsList |-> <<>>,
                dest |-> [k \in 1 .. MaxAdds |-> <<>>],
                signals |-> <<>>, who |-> <<>>, failed |-> <<>>,
                oob |-> FALSE, ret |-> FALSE, args |-> <<>>, fetched |-> -1]
    /\ pktOp = "new"
    /\ pktAdds = 0
    /\ pktReplies = 0

\* alias: which of the two outcomes of WriteRequest a store outside the
\* arrays has; a call that makes no such store has one outcome
PktAddTransaction ==
    /\ UNCHANGED tgtVars
    /\ pktAdds < MaxAdds
    /\ \E tn \in TxnInputs, address \in AddressInputs, fill \in DataInputs,
          alias \in BOOLEAN :
         packet' = AddTransaction(PktCall(packet), tn[1], address,
                       CallerData(tn[1], tn[2],
                                  Len(packet.transactionsList) + 1, fill),
                       tn[2], alias)
    /\ pktOp' = "addTransaction"
    /\ pktAdds' = pktAdds + 1
    /\ UNCHANGED pktReplies

PktAddWordToWrite ==
    /\ UNCHANGED tgtVars
    /\ pktAdds < MaxAdds
    /\ \E address \in AddressInputs, value \in DataInputs, alias \in BOOLEAN :
         packet' = addWordToWrite(PktCall(packet), address, value, alias)
    /\ pktOp' = "addWordToWrite"
    /\ pktAdds' = pktAdds + 1
    /\ UNCHANGED pktReplies

PktAddNBitsToChange ==
    /\ UNCHANGED tgtVars
    /\ pktAdds < MaxAdds
    /\ \E address \in AddressInputs, data \in DataInputs, nbits \in {1, 12, 32},
          shift \in {0, 4}, alias \in BOOLEAN :
         packet' = addNBitsToChange(PktCall(packet), address, data, nbits,
                                    shift, alias)
    /\ pktOp' = "addNBitsToChange"
    /\ pktAdds' = pktAdds + 1
    /\ UNCHANGED pktReplies

PktReset ==
    /\ UNCHANGED tgtVars
    /\ packet' = reset(PktCall(packet))
    /\ pktOp' = "reset"
    /\ UNCHANGED <<pktAdds, pktReplies>>

PktNext ==
    \/ PktAddTransaction
    \/ PktAddWordToWrite
    \/ PktAddNBitsToChange
    \/ PktReset

----------------------------------------------------------------------------
(* IPbusControlPacket with the responses to its requests *)

\* <<type, nWords, destination>> of the transactions a response is validated
\* for
ValTxnInputs ==
    {<<ipread, 2, "user">>, <<ipread, 2, "null">>, <<configurationRead, 0, "user">>,
     <<ipwrite, 1, "user">>, <<RMWbits, 1, "user">>, <<RMWsum, 2, "user">>}

\* what a destination array holds before anything is copied to it
Untouched == <<65535, 65535>>

\* the payload word a target sends at index k of its response
PayloadAt(k) == <<1, k>>

\* the number of response words the builder reserved for the list of p
Reserved(p) ==
    IF p.transactionsList = <<>> THEN 1
    ELSE LET tr == p.transactionsList[Len(p.transactionsList)]
             rh == Fetch(p.request, tr.requestHeader, p.junk)
         IN  tr.responseHeader + 1
             + (CASE TypeID(rh) \in ReadTypes -> Words(rh)
                  [] TypeID(rh) \in {RMWbits, RMWsum} -> 1
                  [] OTHER -> 0)

\* the index in the list of p of the transaction whose response header is
\* at index k of the response, 0 if there is none
HeaderAt(p, k) ==
    IF \E j \in 1 .. Len(p.transactionsList) :
           p.transactionsList[j].responseHeader = k
    THEN CHOOSE j \in 1 .. Len(p.transactionsList) :
             p.transactionsList[j].responseHeader = k
    ELSE 0

\* a transaction header as a target may send it back
Sent(h, what) ==
    CASE what = "info" -> WithInfoCode(h, 4)
      [] what = "fault" -> <<h[1], (TypeID(h) * 16) + 4>>
      [] what = "fewer" -> <<h[1], ((Max(Words(h), 1) - 1) * 256) + (h[2] % 256)>>
      [] what = "more" -> <<h[1], ((Words(h) + 1) * 256) + (h[2] % 256)>>
      [] what = "type" -> TransactionHeader(IF TypeID(h) \in ReadTypes THEN ipwrite
                                            ELSE ipread,
                                            Words(h), TransactionID(h))
      [] what = "id" -> TransactionHeader(TypeID(h), Words(h), TransactionID(h) + 1)
      [] what = "version" -> <<4096 + TransactionID(h), h[2]>>
      [] OTHER -> h

HeaderInputs == {"info", "fault", "fewer", "more", "type", "id", "version"}

\* the responses to the request of p: the echo of every transaction header
\* with the reserved payload, or that with the header of transaction `at`
\* sent back as `what`; `cut` words are missing at the end, of the echo and
\* of a response with an info code
ValReplyInputs(p) ==
    LET some == {[at |-> j, what |-> w, cut |-> 0] :
                    j \in 1 .. Len(p.transactionsList), w \in HeaderInputs}
        short == {[at |-> j, what |-> "info", cut |-> c] :
                    j \in 1 .. Len(p.transactionsList), c \in 1 .. 2}
        echo == {[at |-> 0, what |-> "echo", cut |-> c] : c \in 0 .. 2}
    IN  {r \in some \cup short \cup echo : r.cut < Reserved(p)}

ValReply(p, r) ==
    LET whole == [k \in 1 .. Reserved(p) |->
                    IF k = 1 THEN Fetch(p.request, 0, p.junk)
                    ELSE IF HeaderAt(p, k - 1) = 0 THEN PayloadAt(k - 1)
                    ELSE LET j == HeaderAt(p, k - 1)
                             h == Fetch(p.request,
                                        p.transactionsList[j].requestHeader, p.junk)
                         IN  IF j = r.at THEN Sent(h, r.what) ELSE h]
    IN  SubSeq(whole, 1, Reserved(p) - r.cut)

\* the owner of the packet reads a datagram of the words ws into response
\* and sets responseSize to their number
PktReceive(p, ws) ==
    [p EXCEPT !.response = Splice(@, 0, ws, p.junk), !.responseSize = Len(ws)]

ValAddTransaction ==
    /\ UNCHANGED tgtVars
    /\ pktAdds < MaxAdds
    /\ \E tn \in ValTxnInputs, address \in AddressInputs, fill \in DataInputs,
          alias \in BOOLEAN :
         LET slot == Len(packet.transactionsList) + 1
             data == IF tn[3] = "null"
                     THEN DataArg(Ptr("null", 0), <<>>)
                     ELSE CallerData(tn[1], tn[2], slot, fill)
             p0 == IF tn[1] \in ReadTypes /\ tn[3] = "user"
                   THEN [PktCall(packet) EXCEPT
                            !.dest[slot] = [k \in 1 .. tn[2] |-> Untouched]]
                   ELSE PktCall(packet)
         IN  packet' = AddTransaction(p0, tn[1], address, data, tn[2], alias)
    /\ pktOp' = "addTransaction"
    /\ pktAdds' = pktAdds + 1
    /\ UNCHANGED pktReplies

PktProcessResponse ==
    /\ UNCHANGED tgtVars
    /\ pktReplies < MaxReplies
    /\ \E r \in ValReplyInputs(packet) :
         packet' = processResponse(PktReceive(PktCall(packet), ValReply(packet, r)))
    /\ pktOp' = "processResponse"
    /\ pktReplies' = pktReplies + 1
    /\ UNCHANGED pktAdds

ValNext ==
    \/ ValAddTransaction
    \/ PktProcessResponse

----------------------------------------------------------------------------
(* IPbusTarget *)

\* statusRequest.header
statusHeader == PacketHeader(status, 0)
\* a datagram: its size in bytes and its words
Datagram(n, words) == [n |-> n, words |-> words]
\* what the network does during one call: the result of the socket write
\* ("ok", "fail": -1, "short": fewer bytes than asked), the datagrams that
\* are there to be read before the waits of the call run out, in order of
\* arrival, and whether connectToHost connects
Env(write, dgrams, connected) ==
    [write |-> write, dgrams |-> dgrams, connected |-> connected]

resetTransactions(t) ==
    [t EXCEPT !.requestSize = 1, !.responseSize = 1, !.transactionsList = <<>>]

\* emit of a signal other than error: no slot of the class is connected
TgtEmit(t, s) == [t EXCEPT !.signals = Append(@, s)]

\* emit error(msg, kind) with a slot that leaves updateTimer running
TgtEmitErrorTimerRuns(t, msg, kind) ==
    resetTransactions([t EXCEPT !.signals = Append(@, Signal("error", msg, kind))])

\* emit error(msg, kind), with the slot connected in the constructor
TgtEmitError(t, msg, kind) ==
    resetTransactions([t EXCEPT !.signals = Append(@, Signal("error", msg, kind)),
                                !.timerActive = FALSE])

\* the hook supplied by the subclass
sync(t) == [t EXCEPT !.syncs = @ + 1]

TgtAddTransaction(t, type, address, data, nWords, alias) ==
    LET t1 == WriteRequest(t,
                  <<TransactionHeader(type, nWords, Len(t.transactionsList))>>,
                  alias)
        t2 == WriteRequest(t1, <<address>>, alias)
        t3 == [t2 EXCEPT !.responseSize = Inc16(t2.responseSize, 1)]
        t4 == CASE type \in ReadTypes ->
                     [t3 EXCEPT !.responseSize = Inc16(t3.responseSize, nWords)]
                [] type \in WriteTypes ->
                     WriteRequest(t3, SubSeq(data.words, 1, nWords), alias)
                [] type = RMWbits ->
                     [WriteRequest(t3, <<data.words[1], data.words[2]>>, alias)
                        EXCEPT !.responseSize = Inc16(t3.responseSize, 1)]
                [] type = RMWsum ->
                     [WriteRequest(t3, <<data.words[1]>>, alias)
                        EXCEPT !.responseSize = Inc16(t3.responseSize, 1)]
                [] OTHER ->
                     TgtEmitError(t3, "unknown transaction type", IPbusError)
        currentTransaction ==
            [requestHeader |-> t.requestSize,
             address |-> t1.requestSize,
             responseHeader |-> t2.responseSize,
             data |-> CASE type \in ReadTypes -> data.ptr
                        [] type \in WriteTypes -> Ptr("request", t3.requestSize)
                        [] type \in {RMWbits, RMWsum} -> Ptr("response", t3.responseSize)
                        [] OTHER -> Ptr("uninit", 0)]
    IN  IF t4.requestSize > maxPacket \/ t4.responseSize > maxPacket
        THEN TgtEmitError(t4, "packet size exceeded", IPbusError)
        ELSE [t4 EXCEPT !.transactionsList = Append(@, currentTransaction)]

TgtAddWordToWrite(t, address, value, alias) ==
    TgtAddTransaction(t, ipwrite, address, DataArg(Ptr("local", 0), <<value>>), 1, alias)

\* *dst++ = *src++ for the words ws, dst starting at the pointer ptr
StoreData(t, ptr, ws) ==
    CASE ptr.seg = "null" -> t
      [] ptr.seg = "user" ->
           [t EXCEPT !.dest[ptr.off] =
                         SubSeq(ws, 1, Min(Len(ws), Len(@)))
                         \o SubSeq(@, Len(ws) + 1, Len(@)),
                     !.oob = @ \/ Len(ws) > Len(t.dest[ptr.off])]
      [] ptr.seg = "local" ->
           [t EXCEPT !.local = IF ws = <<>> THEN @ ELSE ws[1],
                     !.oob = @ \/ Len(ws) > 1 \/ (ws # <<>> /\ ~t.localLive)]
      [] OTHER -> [t EXCEPT !.oob = @ \/ ws # <<>>]

\* one turn of the loop of processResponse and the turns after it;
\* ret = FALSE is the return false of the turn that failed
RECURSIVE TgtProcessFrom(_, _)
TgtProcessFrom(t, i) ==
    IF i >= Len(t.transactionsList) THEN [t EXCEPT !.ret = TRUE]
    ELSE
    LET tr == t.transactionsList[i + 1]
        at == tr.responseHeader
        th == Fetch(t.response, at, t.junk)
        rh == Fetch(t.request, tr.requestHeader, t.junk)
        fail(u, msg) == [TgtEmitError(u, msg, IPbusError) EXCEPT !.ret = FALSE]
        go(u) == [u EXCEPT !.ret = TRUE]
        copied == Max(0, Min(Words(th), t.responseSize - at - 1))
        afterRead ==
            LET u == IF tr.data.seg # "null"
                     THEN StoreData(t, tr.data,
                              [k \in 1 .. copied |-> Fetch(t.response, at + k, t.junk)])
                     ELSE t
            IN  IF at + Words(th) >= t.responseSize
                THEN fail(TgtEmit(u, Signal("successfulRead", "",
                                            (t.responseSize - at - 1) % 256)),
                          "read transaction truncated")
                ELSE go(TgtEmit(u, Signal("successfulRead", "", Words(th))))
        afterSwitch ==
            IF Words(th) > 0
            THEN CASE TypeID(th) \in ReadTypes -> afterRead
                   [] TypeID(th) \in {RMWbits, RMWsum} ->
                        IF Words(th) # 1 THEN fail(t, "wrong RMW transaction")
                        ELSE go(TgtEmit(TgtEmit(t, Signal("successfulRead", "", 1)),
                                        Signal("successfulWrite", "", Words(th))))
                   [] TypeID(th) \in WriteTypes ->
                        go(TgtEmit(t, Signal("successfulWrite", "", Words(th))))
                   [] OTHER -> fail(t, "unknown transaction type")
            ELSE go(t)
    IN  IF ProtocolVersion(th) # 2 \/ TransactionID(th) # i
           \/ TypeID(th) # TypeID(rh)
        THEN fail(t, "unexpected transaction header")
        ELSE IF ~afterSwitch.ret THEN afterSwitch
        ELSE IF InfoCode(th) # 0 THEN fail(afterSwitch, "info code")
        ELSE TgtProcessFrom(afterSwitch, i + 1)

TgtProcessResponse(t) == TgtProcessFrom([t EXCEPT !.seen = Append(@, t.responseSize)], 0)

\* n = readDatagram((char *)response, pendingDatagramSize()).  The words of
\* a datagram are its whole words and, when d.n % 4 = 2, a last word of
\* which only the two low bytes (the lo half, little endian) are stored.
ReadDatagram(t, d) ==
    LET whole == d.n \div wordSize
        old == Fetch(t.response, whole, t.junk)
    IN  [t EXCEPT !.response =
            IF d.n % wordSize = 0 THEN Splice(@, 0, d.words, t.junk)
            ELSE Splice(@, 0, SubSeq(d.words, 1, whole)
                              \o <<(<<old[1], d.words[whole + 1][2]>>)>>, t.junk)]

\* a timeout that also drops the packet
TgtTimeoutDropsPacket(t) ==
    resetTransactions([TgtEmit([t EXCEPT !.isOnline = FALSE],
                               Signal("noResponse", "", 0))
                         EXCEPT !.ret = FALSE])

\* the timeout of a wait for a datagram
TgtTimeout(t) ==
    [TgtEmit([t EXCEPT !.isOnline = FALSE], Signal("noResponse", "", 0))
       EXCEPT !.ret = FALSE]

\* lines 145-156 of transceive without the resetTransactions() of line 155
TgtAcceptKeepsPacket(t, d, shouldResponseBeProcessed) ==
    IF d.n = 0
    THEN [TgtEmitError(t, "empty response", networkError) EXCEPT !.ret = FALSE]
    ELSE IF d.n \div wordSize > t.responseSize
            \/ Fetch(t.response, 0, t.junk) # Fetch(t.request, 0, t.junk)
            \/ d.n % wordSize > 0
    THEN [TgtEmitError(t, "incorrect response", networkError) EXCEPT !.ret = FALSE]
    ELSE LET t1 == [t EXCEPT !.responseSize = (d.n \div wordSize) % 65536]
         IN  IF shouldResponseBeProcessed THEN TgtProcessResponse(t1)
             ELSE [t1 EXCEPT !.ret = TRUE]

\* lines 145-156 of transceive: the datagram d is in response
\* lines 145-156 of transceive without the comparison of response[0] with
\* request[0]
TgtAcceptAnyHeader(t, d, shouldResponseBeProcessed) ==
    IF d.n = 0
    THEN [TgtEmitError(t, "empty response", networkError) EXCEPT !.ret = FALSE]
    ELSE IF d.n \div wordSize > t.responseSize
            \/ d.n % wordSize > 0
    THEN [TgtEmitError(t, "incorrect response", networkError) EXCEPT !.ret = FALSE]
    ELSE LET t1 == [t EXCEPT !.responseSize = (d.n \div wordSize) % 65536]
             t2 == IF shouldResponseBeProcessed THEN TgtProcessResponse(t1)
                   ELSE [t1 EXCEPT !.ret = TRUE]
         IN  resetTransactions(t2)
TgtAccept(t, d, shouldResponseBeProcessed) ==
    IF d.n = 0
    THEN [TgtEmitError(t, "empty response", networkError) EXCEPT !.ret = FALSE]
    ELSE IF d.n \div wordSize > t.responseSize
            \/ Fetch(t.response, 0, t.junk) # Fetch(t.request, 0, t.junk)
            \/ d.n % wordSize > 0
    THEN [TgtEmitError(t, "incorrect response", networkError) EXCEPT !.ret = FALSE]
    ELSE LET t1 == [t EXCEPT !.responseSize = (d.n \div wordSize) % 65536]
             t2 == IF shouldResponseBeProcessed THEN TgtProcessResponse(t1)
                   ELSE [t1 EXCEPT !.ret = TRUE]
         IN  resetTransactions(t2)

\* lines 119-122 of transceive: nothing but the packet header to send
TgtEmptyRequest(t) ==
    [TgtEmitError(t, "Empty request", logicError) EXCEPT !.ret = FALSE]

\* lines 135-144 of transceive without the test for a stale status reply
TgtReceiveFirst(t, shouldResponseBeProcessed, env) ==
    TgtAccept(ReadDatagram(t, env.dgrams[1]), env.dgrams[1],
              shouldResponseBeProcessed)

\* lines 135-144 of transceive: the first datagram is there to be read
TgtReceive(t, shouldResponseBeProcessed, env) ==
    LET d1 == env.dgrams[1]
        t1 == ReadDatagram(t, d1)
    IN  IF d1.n = 64 /\ Fetch(t1.response, 0, t1.junk) = statusHeader
        THEN IF Len(env.dgrams) < 2 THEN TgtTimeout(t1)
             ELSE TgtAccept(ReadDatagram(t1, env.dgrams[2]), env.dgrams[2],
                            shouldResponseBeProcessed)
        ELSE TgtAccept(t1, d1, shouldResponseBeProcessed)

transceive(t, shouldResponseBeProcessed, env) ==
    IF t.requestSize <= 1 THEN TgtEmptyRequest(t)
    ELSE
    LET t0 == [t EXCEPT !.net = env]
    IN  IF env.write = "fail"
        THEN [TgtEmitError(t0, "Socket write error", networkError) EXCEPT !.ret = FALSE]
        ELSE IF env.write = "short"
        THEN [TgtEmitError([t0 EXCEPT !.sent = Append(@, wordSize)],
                           "Sending packet failed", networkError) EXCEPT !.ret = FALSE]
        ELSE LET t1 == [t0 EXCEPT !.sent = Append(@, t.requestSize * wordSize)]
             IN  IF env.dgrams = <<>> THEN TgtTimeout(t1)
                 ELSE TgtReceive(t1, shouldResponseBeProcessed, env)

checkStatus(t, env) ==
    LET t1 == [t EXCEPT !.sent = Append(@, 64), !.net = env]
    IN  IF env.dgrams = <<>>
        THEN TgtEmit([t1 EXCEPT !.isOnline = FALSE], Signal("noResponse", "", 0))
        ELSE TgtEmit([t1 EXCEPT !.statusResponse = env.dgrams[1].words,
                                !.isOnline = TRUE],
                     Signal("IPbusStatusOK", "", 0))

reconnect(t, env) ==
    IF ~env.connected
    THEN TgtEmit([t EXCEPT !.isOnline = FALSE, !.net = env],
                 Signal("noResponse", "", 0))
    ELSE LET t1 == checkStatus(t, env)
         IN  IF ~t1.timerActive
             THEN [t1 EXCEPT !.timerActive = TRUE, !.started = TRUE]
             ELSE t1

\* the slot connected to updateTimer's timeout in the constructor
updateTimerTimeout(t, env) ==
    IF t.isOnline THEN sync(t) ELSE checkStatus(t, env)

----------------------------------------------------------------------------
(* The network seen by one call of IPbusTarget *)

PayloadInput == <<0, 85>>

\* the response the builder reserved room for: the packet header, and at
\* every recorded response header the request's transaction header
Echo(t) ==
    [k \in 1 .. t.responseSize |->
        IF k = 1 THEN Fetch(t.request, 0, t.junk)
        ELSE IF \E j \in 1 .. Len(t.transactionsList) :
                    t.transactionsList[j].responseHeader = k - 1
        THEN LET j == CHOOSE j \in 1 .. Len(t.transactionsList) :
                          t.transactionsList[j].responseHeader = k - 1
             IN  Fetch(t.request, t.transactionsList[j].requestHeader, t.junk)
        ELSE PayloadInput]

StatusReply == Datagram(64, <<statusHeader>> \o [k \in 1 .. 15 |-> <<0, 0>>])

ReplyInputs ==
    {"echo", "one word short", "header only", "other packet", "info code",
     "one word long", "ragged", "empty", "status"}

\* a datagram a target answers the request of t with
Reply(t, kind) ==
    LET e == Echo(t)
        n == Len(e)
    IN  CASE kind = "echo" -> Datagram(wordSize * n, e)
          [] kind = "one word short" ->
                Datagram(wordSize * (n - 1), SubSeq(e, 1, n - 1))
          [] kind = "header only" -> Datagram(wordSize, <<e[1]>>)
          [] kind = "other packet" ->
                Datagram(wordSize * n, [e EXCEPT ![1] = PacketHeader(control, 1)])
          [] kind = "info code" ->
                Datagram(wordSize * n, [e EXCEPT ![Min(2, n)] = WithInfoCode(@, 4)])
          [] kind = "one word long" ->
                Datagram(wordSize * (n + 1), e \o <<PayloadInput>>)
          [] kind = "ragged" -> Datagram(wordSize * (n - 1) + 2, e)
          [] kind = "empty" -> Datagram(0, <<>>)
          [] OTHER -> StatusReply

NoEnv == Env("ok", <<>>, TRUE)

\* what the network does during a call of transceive: the socket write,
\* then the kinds of the datagrams that arrive, in order
NetInputs ==
    {[write |-> "fail", replies |-> <<>>], [write |-> "short", replies |-> <<>>],
     [write |-> "ok", replies |-> <<>>]}
    \cup {[write |-> "ok", replies |-> <<k>>] : k \in ReplyInputs}
    \cup {[write |-> "ok", replies |-> <<"status", k>>] : k \in ReplyInputs}

\* the network that answers the request of t
Net(t, in) ==
    Env(in.write, [k \in 1 .. Len(in.replies) |-> Reply(t, in.replies[k])], TRUE)

\* the network during a call of checkStatus or reconnect
StatusEnvs ==
    {Env("ok", <<>>, TRUE), Env("ok", <<StatusReply>>, TRUE),
     Env("ok", <<Datagram(64, <<PacketHeader(control, 0)>>
                              \o [k \in 1 .. 15 |-> <<0, 0>>])>>, TRUE),
     Env("ok", <<>>, FALSE)}

----------------------------------------------------------------------------
(* The calls of IPbusTarget that build a request and send it *)

\* the state a sequence of statements ends in: S holds that one state
The(S) == CHOOSE t \in S : TRUE

\* t1: after the addTransaction of the method, t2: after its transceive
readRegister(t, address, in, alias) ==
    The({[t2 EXCEPT !.value = IF t2.ret THEN t2.local ELSE <<65535, 65535>>,
                    !.localLive = FALSE] :
           t2 \in {transceive(t1, TRUE, Net(t1, in)) :
                     t1 \in {TgtAddTransaction(
                                [t EXCEPT !.local = <<65535, 65535>>,
                                          !.localLive = TRUE],
                                ipread, address,
                                DataArg(Ptr("local", 0), <<>>), 1, alias)}}})

writeRegister(t, data, address, syncOnSuccess, in, alias) ==
    The({IF t2.ret /\ syncOnSuccess THEN sync(t2) ELSE t2 :
           t2 \in {transceive(t1, TRUE, Net(t1, in)) :
                     t1 \in {TgtAddTransaction(t, ipwrite, address,
                                DataArg(Ptr("local", 0), <<data>>), 1, alias)}}})

\* the tail shared by setBit, clearBit and writeNbits
TgtRMWbits(t, m0, m1, address, syncOnSuccess, in, alias) ==
    The({IF t2.ret /\ syncOnSuccess THEN sync(t2) ELSE t2 :
           t2 \in {transceive(t1, TRUE, Net(t1, in)) :
                     t1 \in {TgtAddTransaction(masks(t, m0, m1), RMWbits, address,
                                DataArg(Ptr("dt", 0), <<m0, m1>>), 1, alias)}}})

setBit(t, n, address, syncOnSuccess, in, alias) ==
    TgtRMWbits(t, <<65535, 65535>>, Shl32(<<0, 1>>, n), address,
               syncOnSuccess, in, alias)

clearBit(t, n, address, syncOnSuccess, in, alias) ==
    TgtRMWbits(t, Not32(Shl32(<<0, 1>>, n)), <<0, 0>>, address,
               syncOnSuccess, in, alias)

\* 1 << nbits is a shift of an int: with nbits = 32 it is undefined, and a
\* build takes the count modulo 32 (1 << 32 = 1, mask = 0) or shifts the bit
\* out (1 << 32 = 0, mask = 0xFFFFFFFF); wraps tells which
writeNbits(t, data, address, nbits, shift, syncOnSuccess, in, alias, wraps) ==
    LET mask == IF nbits < 32 THEN LowMask(nbits)
                ELSE IF wraps THEN <<0, 0>> ELSE <<65535, 65535>>
    IN  TgtRMWbits(t, Not32(Shl32(mask, shift)), Shl32(And32(data, mask), shift),
                   address, syncOnSuccess, in, alias)

----------------------------------------------------------------------------
(* Calls of IPbusTarget *)

\* the observations of one call start empty
TgtCall(t) ==
    [t EXCEPT !.signals = <<>>, !.oob = FALSE, !.sent = <<>>, !.syncs = 0,
              !.seen = <<>>, !.ret = FALSE, !.value = <<0, 0>>,
              !.started = FALSE, !.net = NoEnv, !.args = <<>>]

TgtNew(g) ==
    /\ target = [requestSize |-> 1, responseSize |-> 1,
                   request |-> <<PacketHeader(control, 0)>>,
                   response |-> <<>>,
                   dt |-> <<g, g>>,
                   junk |-> g,
                   transactionsList |-> <<>>,
                   statusResponse |-> <<>>,
                   isOnline |-> FALSE,
                   timerActive |-> TRUE,
                   dest |-> [k \in 1 .. MaxCalls |-> <<>>],
                   local |-> g, localLive |-> FALSE,
                   signals |-> <<>>, oob |-> FALSE, sent |-> <<>>, syncs |-> 0,
                   seen |-> <<>>, ret |-> FALSE, value |-> <<0, 0>>,
                   started |-> FALSE, net |-> NoEnv, frames |-> <<>>,
                   args |-> <<>>]
    /\ tgtOp = "new"
    /\ tgtCalls = 0

CallAddTransaction ==
    /\ UNCHANGED pktVars
    /\ tgtCalls < MaxCalls
    /\ \E tn \in TgtTxnInputs, address \in AddressInputs, fill \in DataInputs,
          alias \in BOOLEAN :
         LET slot == Len(target.transactionsList) + 1
             data == CallerData(tn[1], tn[2], slot, fill)
             t0 == IF tn[1] \in ReadTypes
                   THEN [TgtCall(target) EXCEPT
                            !.dest[slot] = [k \in 1 .. tn[2] |-> <<65535, 65535>>]]
                   ELSE TgtCall(target)
         IN  target' = TgtAddTransaction(t0, tn[1], address, data, tn[2], alias)
    /\ tgtOp' = "addTransaction"
    /\ tgtCalls' = tgtCalls + 1

CallAddWordToWrite ==
    /\ UNCHANGED pktVars
    /\ tgtCalls < MaxCalls
    /\ \E address \in AddressInputs, value \in DataInputs, alias \in BOOLEAN :
         target' = TgtAddWordToWrite(TgtCall(target), address, value, alias)
    /\ tgtOp' = "addWordToWrite"
    /\ tgtCalls' = tgtCalls + 1

CallTransceive ==
    /\ UNCHANGED pktVars
    /\ tgtCalls < MaxCalls
    /\ \E in \in NetInputs, shouldResponseBeProcessed \in BOOLEAN :
         /\ target' = transceive(TgtCall(target), shouldResponseBeProcessed,
                                 Net(target, in))
         /\ tgtOp' = IF shouldResponseBeProcessed THEN "transceive"
                     ELSE "transceive(false)"
    /\ tgtCalls' = tgtCalls + 1

CallResetTransactions ==
    /\ UNCHANGED pktVars
    /\ tgtCalls < MaxCalls
    /\ target' = resetTransactions(TgtCall(target))
    /\ tgtOp' = "resetTransactions"
    /\ tgtCalls' = tgtCalls + 1

CallCheckStatus ==
    /\ UNCHANGED pktVars
    /\ tgtCalls < MaxCalls
    /\ \E env \in {e \in StatusEnvs : e.connected} :
         target' = checkStatus(TgtCall(target), env)
    /\ tgtOp' = "checkStatus"
    /\ tgtCalls' = tgtCalls + 1

CallReconnect ==
    /\ UNCHANGED pktVars
    /\ tgtCalls < MaxCalls
    /\ \E env \in StatusEnvs :
         target' = reconnect(TgtCall(target), env)
    /\ tgtOp' = "reconnect"
    /\ tgtCalls' = tgtCalls + 1

UpdateTimerTimeout ==
    /\ UNCHANGED pktVars
    /\ tgtCalls < MaxCalls
    /\ target.timerActive
    /\ \E env \in {e \in StatusEnvs : e.connected} :
         target' = updateTimerTimeout(TgtCall(target), env)
    /\ tgtOp' = "updateTimer"
    /\ tgtCalls' = tgtCalls + 1

CallReadRegister ==
    /\ UNCHANGED pktVars
    /\ tgtCalls < MaxCalls
    /\ \E address \in AddressInputs, in \in NetInputs, alias \in BOOLEAN :
         target' = readRegister(TgtCall(target), address, in, alias)
    /\ tgtOp' = "readRegister"
    /\ tgtCalls' = tgtCalls + 1

CallWriteRegister ==
    /\ UNCHANGED pktVars
    /\ tgtCalls < MaxCalls
    /\ \E address \in AddressInputs, data \in DataInputs, syncOnSuccess \in BOOLEAN,
          in \in NetInputs, alias \in BOOLEAN :
         target' = writeRegister(TgtCall(target), data, address, syncOnSuccess,
                                 in, alias)
    /\ tgtOp' = "writeRegister"
    /\ tgtCalls' = tgtCalls + 1

CallSetBit ==
    /\ UNCHANGED pktVars
    /\ tgtCalls < MaxCalls
    /\ \E address \in AddressInputs, n \in {5, 31}, syncOnSuccess \in BOOLEAN,
          in \in NetInputs, alias \in BOOLEAN :
         target' = setBit(TgtCall(target), n, address, syncOnSuccess, in, alias)
    /\ tgtOp' = "setBit"
    /\ tgtCalls' = tgtCalls + 1

CallClearBit ==
    /\ UNCHANGED pktVars
    /\ tgtCalls < MaxCalls
    /\ \E address \in AddressInputs, n \in {5, 31}, syncOnSuccess \in BOOLEAN,
          in \in NetInputs, alias \in BOOLEAN :
         target' = clearBit(TgtCall(target), n, address, syncOnSuccess, in, alias)
    /\ tgtOp' = "clearBit"
    /\ tgtCalls' = tgtCalls + 1

CallWriteNbits ==
    /\ UNCHANGED pktVars
    /\ tgtCalls < MaxCalls
    /\ \E address \in AddressInputs, data \in DataInputs, nbits \in {12},
          shift \in {4}, syncOnSuccess \in BOOLEAN, in \in NetInputs,
          alias \in BOOLEAN, wraps \in BOOLEAN :
         target' = writeNbits(TgtCall(target), data, address, nbits, shift,
                              syncOnSuccess, in, alias, wraps)
    /\ tgtOp' = "writeNbits"
    /\ tgtCalls' = tgtCalls + 1

----------------------------------------------------------------------------
(* IPbusTarget with slots that call back into it.  The connections of the  *)
(* class are direct: the slots connected to a signal run inside the emit.  *)
(* frames is the stack of the calls of transceive, checkStatus and the     *)
(* updateTimer slot that have started and not returned, the last one on    *)
(* top; the calls above run to their return and leave it empty.  What the  *)
(* network brings, and so which branch a call takes, is chosen at each     *)
(* step.                                                                   *)

\* a call in progress: pc is "waiting" (the request is written, the call is
\* in waitForReadyRead), "validate" (at the head of the loop of
\* processResponse, turn i), "emit" (inside an emit, the connected slots
\* are running; next tells where the call goes on) or "start"; sent tells
\* that the call wrote its request to the socket
Frame(op, pc, next, sent, i) ==
    [op |-> op, pc |-> pc, next |-> next, sent |-> sent, i |-> i]
Top(t) == t.frames[Len(t.frames)]
Push(t, f) == [t EXCEPT !.frames = Append(@, f)]
Pop(t) == [t EXCEPT !.frames = SubSeq(@, 1, Len(@) - 1)]
SetTop(t, f) == [t EXCEPT !.frames[Len(t.frames)] = f]
\* the slots connected to the signal the top call emits are running
InSlot(t) == t.frames # <<>> /\ Top(t).pc = "emit"
\* a method can be called: from the event loop with no call in progress,
\* or from a slot
CanCall(t) == t.frames = <<>> \/ InSlot(t)

SlotAddWordToWrite ==
    /\ UNCHANGED pktVars
    /\ tgtCalls < MaxCalls
    /\ CanCall(target)
    /\ \E address \in AddressInputs, value \in DataInputs, alias \in BOOLEAN :
         target' = TgtAddWordToWrite(target, address, value, alias)
    /\ tgtOp' = "addWordToWrite"
    /\ tgtCalls' = tgtCalls + 1

\* lines 118-129 of transceive: up to the write of the request
SlotTransceive ==
    /\ UNCHANGED pktVars
    /\ tgtCalls < MaxCalls
    /\ CanCall(target)
    /\ IF target.requestSize <= 1
       THEN target' = Push(TgtEmitError(target, "Empty request", logicError),
                           Frame("transceive", "emit", "return", FALSE, 0))
       ELSE \E write \in {"fail", "short", "ok"} :
              target' =
                CASE write = "fail" ->
                       Push(TgtEmitError(target, "Socket write error", networkError),
                            Frame("transceive", "emit", "return", FALSE, 0))
                  [] write = "short" ->
                       Push(TgtEmitError([target EXCEPT !.sent = Append(@, wordSize)],
                                         "Sending packet failed", networkError),
                            Frame("transceive", "emit", "return", FALSE, 0))
                  [] OTHER ->
                       Push([target EXCEPT
                               !.sent = Append(@, target.requestSize * wordSize)],
                            Frame("transceive", "waiting", "", TRUE, 0))
    /\ tgtOp' = "transceive"
    /\ tgtCalls' = tgtCalls + 1

\* lines 130-153 of transceive: the wait and the tests of the datagram
SlotWait ==
    /\ UNCHANGED <<pktVars, tgtCalls>>
    /\ target.frames # <<>>
    /\ Top(target).op = "transceive" /\ Top(target).pc = "waiting"
    /\ \E got \in {"nothing", "empty", "incorrect", "accepted"} :
         target' =
           CASE got = "nothing" ->
                  SetTop(TgtEmit([target EXCEPT !.isOnline = FALSE], Signal("noResponse", "", 0)),
                         Frame("transceive", "emit", "return", TRUE, 0))
             [] got = "empty" ->
                  SetTop(TgtEmitError(target, "empty response", networkError),
                         Frame("transceive", "emit", "return", TRUE, 0))
             [] got = "incorrect" ->
                  SetTop(TgtEmitError(target, "incorrect response", networkError),
                         Frame("transceive", "emit", "return", TRUE, 0))
             [] OTHER ->
                  SetTop(target, Frame("transceive", "validate", "", TRUE, 0))
    /\ tgtOp' = "wait"

\* one turn of the loop of processResponse, lines 160-203, or after the last
\* one lines 155-156 of transceive
SlotValidate ==
    /\ UNCHANGED <<pktVars, tgtCalls>>
    /\ target.frames # <<>>
    /\ Top(target).op = "transceive" /\ Top(target).pc = "validate"
    /\ LET i == Top(target).i
       IN  IF i >= Len(target.transactionsList)
           THEN target' = Pop(resetTransactions(target))
           ELSE \E turn \in {"no words", "read", "write", "error"} :
                  target' =
                    CASE turn = "no words" ->
                           SetTop(target,
                                  Frame("transceive", "validate", "", TRUE, i + 1))
                      [] turn = "read" ->
                           SetTop(TgtEmit(target, Signal("successfulRead", "", 1)),
                                  Frame("transceive", "emit", "validate", TRUE, i + 1))
                      [] turn = "write" ->
                           SetTop(TgtEmit(target, Signal("successfulWrite", "", 1)),
                                  Frame("transceive", "emit", "validate", TRUE, i + 1))
                      [] OTHER ->
                           SetTop(TgtEmitError(target, "info code", IPbusError),
                                  Frame("transceive", "emit", "reset", TRUE, i))
    /\ tgtOp' = "processResponse"

\* lines 215-216 of checkStatus: the write of the status request
SlotCheckStatus ==
    /\ UNCHANGED pktVars
    /\ tgtCalls < MaxCalls
    /\ CanCall(target)
    /\ target' = Push([target EXCEPT !.sent = Append(@, 64)],
                      Frame("checkStatus", "waiting", "", TRUE, 0))
    /\ tgtOp' = "checkStatus"
    /\ tgtCalls' = tgtCalls + 1

\* lines 217-224 of checkStatus
SlotStatusWait ==
    /\ UNCHANGED <<pktVars, tgtCalls>>
    /\ target.frames # <<>>
    /\ Top(target).op = "checkStatus" /\ Top(target).pc = "waiting"
    /\ \E got \in BOOLEAN :
         target' =
           IF got
           THEN SetTop(TgtEmit([target EXCEPT !.isOnline = TRUE],
                               Signal("IPbusStatusOK", "", 0)),
                       Frame("checkStatus", "emit", "return", TRUE, 0))
           ELSE SetTop(TgtEmit([target EXCEPT !.isOnline = FALSE], Signal("noResponse", "", 0)),
                       Frame("checkStatus", "emit", "return", TRUE, 0))
    /\ tgtOp' = "status wait"

\* the event loop delivers the timeout of updateTimer: when no call is in
\* progress, or when a slot runs an event loop of its own
SlotTimerTimeout ==
    /\ UNCHANGED pktVars
    /\ tgtCalls < MaxCalls
    /\ CanCall(target)
    /\ target.timerActive
    /\ target' = Push(target, Frame("updateTimer", "start", "", FALSE, 0))
    /\ tgtOp' = "updateTimer"
    /\ tgtCalls' = tgtCalls + 1

\* line 33: if (isOnline) sync(); else checkStatus();
SlotTimerBody ==
    /\ UNCHANGED <<pktVars, tgtCalls>>
    /\ target.frames # <<>>
    /\ Top(target).op = "updateTimer"
    /\ IF Top(target).pc = "start"
       THEN IF target.isOnline
            THEN target' = Pop(sync(target))
            ELSE target' = Push(SetTop([target EXCEPT !.sent = Append(@, 64)],
                                       Frame("updateTimer", "called", "", FALSE, 0)),
                                Frame("checkStatus", "waiting", "", TRUE, 0))
       ELSE target' = Pop(target)
    /\ tgtOp' = "updateTimer body"

\* the slots connected to the signal have returned and the call goes on
SlotResume ==
    /\ UNCHANGED <<pktVars, tgtCalls>>
    /\ InSlot(target)
    /\ target' =
         CASE Top(target).next = "validate" ->
                SetTop(target, [Top(target) EXCEPT !.pc = "validate"])
           [] Top(target).next = "reset" -> Pop(resetTransactions(target))
           [] OTHER -> Pop(target)
    /\ tgtOp' = "resume"

SlotNext ==
    \/ SlotAddWordToWrite
    \/ SlotTransceive
    \/ SlotWait
    \/ SlotValidate
    \/ SlotCheckStatus
    \/ SlotStatusWait
    \/ SlotTimerTimeout
    \/ SlotTimerBody
    \/ SlotResume

----------------------------------------------------------------------------
(* The calls that change nbits bits of a register, with every width *)

\* <<nbits, shift>>: every width, at the low end, at the high end and at
\* bit 4 of the register
BitsInputs ==
    {<<n, s>> \in (1 .. 32) \X (0 .. 31) : s \in {0, 4, 32 - n} /\ n + s <= 32}
BitsDataInputs == {<<65535, 65535>>, <<42405, 23130>>}
\* args of an object after such a call: data, nbits, shift and the index in
\* request at which the call wrote its transaction header

BitsAddNBitsToChange ==
    /\ UNCHANGED tgtVars
    /\ pktAdds + tgtCalls < MaxBitCalls
    /\ \E address \in AddressInputs, data \in BitsDataInputs, ns \in BitsInputs,
          alias \in BOOLEAN :
         packet' = [addNBitsToChange(PktCall(packet), address, data, ns[1],
                                     ns[2], alias)
                      EXCEPT !.args = <<data, ns[1], ns[2], packet.requestSize>>]
    /\ pktOp' = "addNBitsToChange"
    /\ pktAdds' = pktAdds + 1
    /\ UNCHANGED pktReplies

BitsWriteNbits ==
    /\ UNCHANGED pktVars
    /\ pktAdds + tgtCalls < MaxBitCalls
    /\ \E address \in AddressInputs, data \in BitsDataInputs, ns \in BitsInputs,
          in \in {[write |-> "ok", replies |-> <<>>],
                  [write |-> "ok", replies |-> <<"echo">>]},
          alias \in BOOLEAN, wraps \in BOOLEAN :
         target' = [writeNbits(TgtCall(target), data, address, ns[1], ns[2],
                               FALSE, in, alias, wraps)
                      EXCEPT !.args = <<data, ns[1], ns[2], target.requestSize>>]
    /\ tgtOp' = "writeNbits"
    /\ tgtCalls' = tgtCalls + 1

BitsNext ==
    \/ BitsAddNBitsToChange
    \/ BitsWriteNbits

TgtNext ==
    \/ CallAddTransaction
    \/ CallAddWordToWrite
    \/ CallTransceive
    \/ CallResetTransactions
    \/ CallCheckStatus
    \/ CallReconnect
    \/ UpdateTimerTimeout

----------------------------------------------------------------------------
(* Specifications: a packet builder on its own, a target on its own *)

vars == <<packet, pktOp, pktAdds, pktReplies, target, tgtOp, tgtCalls>>

PktInit == (\E g \in Garbage : PktNew(g)) /\ TgtNew(<<0, 0>>)
TgtInit == (\E g \in Garbage : TgtNew(g)) /\ PktNew(<<0, 0>>)

SpecPacket == PktInit /\ [][PktNext]_vars
SpecTarget == TgtInit /\ [][TgtNext]_vars
SpecValidator == PktInit /\ [][ValNext]_vars

\* a target used through the calls that build a request and send it
RegNext ==
    \/ CallReadRegister
    \/ CallWriteRegister
    \/ CallResetTransactions
SpecRegisters == TgtInit /\ [][RegNext]_vars
SpecSlots == TgtInit /\ [][SlotNext]_vars
SpecBits == PktInit /\ [][BitsNext]_vars

----------------------------------------------------------------------------
(* Properties of IPbusTarget::transceive, checkStatus and the keepalive,  *)
(* under SpecTarget                                                         *)

Emitted(t, sig) == \E k \in 1 .. Len(t.signals) : t.signals[k].sig = sig
EmittedError(t, kind) ==
    \E k \in 1 .. Len(t.signals) :
        t.signals[k].sig = "error" /\ t.signals[k].arg = kind
Transceives == {"transceive", "transceive(false)"}
NoResponse == Signal("noResponse", "", 0)

\* the step is a call of transceive
TransceiveStep == tgtOp' \in Transceives
\* the step is a call of transceive that wrote the whole request to the socket
SentStep ==
    /\ TransceiveStep
    /\ target.requestSize > 1
    /\ target'.net.write = "ok"

\* C1: transceive called while the target is not online returns failure and
\* sends no datagram.
C1_OfflineTransceiveSendsNothing ==
    [][(TransceiveStep /\ ~target.isOnline)
         => (~target'.ret /\ target'.sent = <<>>)]_vars

\* C2: transceive called on a packet holding nothing but the packet header
\* returns success, sends nothing and emits no error signal.
C2_EmptyRequestIsNoOp ==
    [][(TransceiveStep /\ target.requestSize <= 1)
         => (target'.ret /\ target'.sent = <<>> /\ ~Emitted(target', "error"))]_vars

\* C3: when transceive has sent the request and no datagram arrives before
\* the timeout, it emits noResponse and nothing else, the target is not
\* online, the call returns failure, and requestSize, responseSize and the
\* transaction list are what they were before the call.
C3_TimeoutKeepsPacket ==
    [][(SentStep /\ target'.net.dgrams = <<>>)
         => /\ target'.signals = <<NoResponse>>
            /\ ~target'.isOnline
            /\ ~target'.ret
            /\ target'.sent = <<wordSize * target.requestSize>>
            /\ target'.requestSize = target.requestSize
            /\ target'.responseSize = target.responseSize
            /\ target'.transactionsList = target.transactionsList]_vars

\* a transceive that sent a request of at least one transaction and timed out
C3_Witness ==
    /\ tgtOp \in Transceives
    /\ target.sent # <<>>
    /\ target.net.dgrams = <<>>
    /\ target.signals = <<NoResponse>>
    /\ target.transactionsList # <<>>

\* C4: whenever transceive ends with a network error, the target is not
\* online when the call returns.
C4_NetworkErrorGoesOffline ==
    [][(TransceiveStep /\ EmittedError(target', networkError))
         => ~target'.isOnline]_vars

\* C5: checkStatus sets the target online and emits IPbusStatusOK only when
\* a reply arrived whose first word is the header of the status request; on
\* a timeout or any other reply it sets the target not online and emits
\* noResponse.
C5_StatusReplyIsChecked ==
    [][(tgtOp' = "checkStatus")
         => IF /\ target'.net.dgrams # <<>>
               /\ target'.net.dgrams[1].words[1] = statusHeader
            THEN target'.isOnline /\ target'.signals = <<Signal("IPbusStatusOK", "", 0)>>
            ELSE ~target'.isOnline /\ target'.signals = <<NoResponse>>]_vars

\* C6: an error signal stops the keepalive timer; the timer's slot runs only
\* while the timer is active; a stopped timer is started again only by a
\* call of reconnect whose connectToHost succeeded, and every such call
\* leaves it active; an active timer stays active through every call that
\* emits no error.
C6_KeepaliveStopsOnError ==
    [][/\ Emitted(target', "error") => ~target'.timerActive
       /\ (tgtOp' = "updateTimer") => target.timerActive
       /\ (~target.timerActive /\ target'.timerActive)
            => (tgtOp' = "reconnect" /\ target'.net.connected)
       /\ (tgtOp' = "reconnect" /\ target'.net.connected) => target'.timerActive
       /\ (target.timerActive /\ ~Emitted(target', "error"))
            => target'.timerActive]_vars

\* a reconnect that started the timer an earlier error had stopped
C6_Witness ==
    /\ tgtOp = "reconnect"
    /\ target.started
    /\ target.timerActive

\* a 64-byte datagram whose first word is the header of the status request
StaleStatus(d) == d.n = 64 /\ d.words[1] = statusHeader

\* a datagram that passes the tests of transceive on the reply to the packet
\* of t: not empty, whole words, no more words than reserved, first word
\* equal to request[0]
Acceptable(t, d) ==
    /\ d.n > 0
    /\ d.n % wordSize = 0
    /\ d.n \div wordSize <= t.responseSize
    /\ d.words[1] = Fetch(t.request, 0, t.junk)

\* the result of the validator on the packet of t once the datagrams ds have
\* been read into response one after the other
Validated(t, ds) ==
    LET last == ds[Len(ds)]
        t1 == IF Len(ds) = 2 THEN ReadDatagram(ReadDatagram(t, ds[1]), ds[2])
              ELSE ReadDatagram(t, ds[1])
    IN  TgtProcessResponse([t1 EXCEPT !.responseSize = last.n \div wordSize]).ret

\* what transceive leaves behind after it accepted the datagram d, the last
\* of the datagrams ds it read: the validator has run on d.n / 4 words
\* unless the caller opted out, the packet is reset, and the call returns
\* the validator's result
AcceptedOutcome(ds) ==
    LET d == ds[Len(ds)]
    IN  /\ target'.seen = IF tgtOp' = "transceive" THEN <<d.n \div wordSize>>
                          ELSE <<>>
        /\ target'.requestSize = 1
        /\ target'.responseSize = 1
        /\ target'.transactionsList = <<>>
        /\ target'.ret = IF tgtOp' = "transceive" THEN Validated(target, ds)
                         ELSE TRUE
        /\ target'.ret <=> ~Emitted(target', "error")

\* the outcome of a wait that timed out
TimeoutOutcome ==
    /\ target'.signals = <<NoResponse>>
    /\ ~target'.isOnline
    /\ ~target'.ret
    /\ target'.seen = <<>>

\* C7: when transceive accepts a datagram, it sets responseSize to the
\* number of words received, runs the validator unless the caller opted out
\* and then resets the packet: on return the sizes are 1 and the list is
\* empty whether validation succeeded or not, and the return value is the
\* validator's result (success if opted out).
C7_AcceptedReplyResetsPacket ==
    [][(/\ SentStep
        /\ Len(target'.net.dgrams) = 1
        /\ ~StaleStatus(target'.net.dgrams[1])
        /\ Acceptable(target, target'.net.dgrams[1]))
         => AcceptedOutcome(target'.net.dgrams)]_vars

\* a transceive whose validator ran on the words received and succeeded
C7_Witness ==
    /\ tgtOp = "transceive"
    /\ Len(target.net.dgrams) = 1
    /\ target.seen # <<>>
    /\ target.ret
    /\ Emitted(target, "successfulRead")
    /\ target.requestSize = 1

\* the call of transceive that meets the datagram d alone, made on the packet
\* of the step with the words of the discarded datagram left in response
AloneAfter(discarded, d) ==
    transceive(TgtCall([target EXCEPT
                           !.response = ReadDatagram(target, discarded).response]),
               tgtOp' = "transceive", Env("ok", <<d>>, TRUE))

----------------------------------------------------------------------------
(* Properties of IPbusControlPacket, under SpecPacket *)

PacketRejected(p) ==
    \E k \in 1 .. Len(p.signals) : p.signals[k].msg = "packet size exceeded"

\* C9: an addTransaction that would make requestSize or responseSize exceed
\* maxPacket is rejected with an error and leaves requestSize, responseSize
\* and the transaction list as they were before the call.
C9_RejectedAddChangesNothing ==
    [][PacketRejected(packet')
         => /\ packet'.requestSize = packet.requestSize
            /\ packet'.responseSize = packet.responseSize
            /\ packet'.transactionsList = packet.transactionsList]_vars

\* C10: in every state of a packet builder both sizes lie in 1 .. maxPacket.
C10_SizesWithinPacket ==
    /\ 1 <= packet.requestSize /\ packet.requestSize <= maxPacket
    /\ 1 <= packet.responseSize /\ packet.responseSize <= maxPacket

----------------------------------------------------------------------------
(* Claims about the validation of a response, IPbusControlPacket *)

ValidatorStep == pktOp' = "processResponse"
ValidatorRan == pktOp = "processResponse"
PktEmitted(p, name) == \E k \in 1 .. Len(p.signals) : p.signals[k].sig = name
PktErrors(p) == {k \in 1 .. Len(p.signals) : p.signals[k].sig = "error"}
\* the transaction at which the validator returned false
FailedAt(p) == p.failed[1]

\* C11: the validator takes the transactions in ascending order of index, and
\* when transaction k fails it returns at once: every signal of the call
\* belongs to a transaction of index at most k and no destination of a
\* transaction after k is written.
C11_StopsAtFirstFailure ==
    [][ValidatorStep =>
         LET w == packet'.who
         IN  /\ \A a \in 1 .. Len(w) - 1 : w[a] <= w[a + 1]
             /\ packet'.ret <=> packet'.failed = <<>>
             /\ ~packet'.ret =>
                  /\ \A a \in 1 .. Len(w) : w[a] <= FailedAt(packet')
                  /\ \A j \in 1 .. MaxAdds :
                       j > FailedAt(packet') + 1 => packet'.dest[j] = packet.dest[j]]_vars

\* the first of two transactions failed with the whole response there for
\* the second, a read into an array of the caller
C11_Witness ==
    /\ ValidatorRan /\ ~packet.ret
    /\ Len(packet.transactionsList) = 2
    /\ FailedAt(packet) = 0
    /\ packet.responseSize = Reserved(packet)
    /\ packet.transactionsList[2].data.seg = "user"
    /\ packet.dest[2] = <<Untouched, Untouched>>

\* the response of p holds, for every transaction before transaction i, the
\* echo of its request header, which declares one word if it is an RMW, and
\* the whole payload reserved for it
Reached(p, i) ==
    \A j \in 0 .. i - 1 :
        LET tr == p.transactionsList[j + 1]
            rh == Fetch(p.request, tr.requestHeader, p.junk)
            upto == tr.responseHeader + 1
                    + (CASE TypeID(rh) \in ReadTypes -> Words(rh)
                         [] TypeID(rh) \in {RMWbits, RMWsum} -> 1
                         [] OTHER -> 0)
        IN  /\ upto <= p.responseSize
            /\ Fetch(p.response, tr.responseHeader, p.junk) = rh
            /\ TypeID(rh) \in {RMWbits, RMWsum} => Words(rh) = 1
\* the header of response transaction i of p is there and passes the check
\* of protocol version, transaction ID and type
HeaderPasses(p, i) ==
    LET tr == p.transactionsList[i + 1]
        th == Fetch(p.response, tr.responseHeader, p.junk)
        rh == Fetch(p.request, tr.requestHeader, p.junk)
    IN  /\ tr.responseHeader < p.responseSize
        /\ ProtocolVersion(th) = 2 /\ TransactionID(th) = i
        /\ TypeID(th) = TypeID(rh)
ResponseHeader(p, i) == Fetch(p.response, p.transactionsList[i + 1].responseHeader, p.junk)
\* the payload words of the response that follow the header of transaction i
WordsAhead(p, i) == p.responseSize - p.transactionsList[i + 1].responseHeader - 1
\* the signals emitted while the validator was at transaction i
SignalsAt(p, i) ==
    LET RECURSIVE from(_)
        from(k) == IF k > Len(p.signals) THEN <<>>
                   ELSE IF p.who[k] = i THEN <<p.signals[k]>> \o from(k + 1)
                   ELSE from(k + 1)
    IN  from(1)
\* response transaction i is a read with info code 0 that declares more
\* words than the response holds after its header
TruncatedRead(p, i) ==
    /\ Reached(p, i) /\ HeaderPasses(p, i)
    /\ TypeID(ResponseHeader(p, i)) \in ReadTypes
    /\ InfoCode(ResponseHeader(p, i)) = 0
    /\ Words(ResponseHeader(p, i)) > WordsAhead(p, i)

\* C12: when the validator comes to a read whose response header declares W
\* words with info code 0 and only ahead < W words follow it in the response,
\* it copies those ahead words to the destination and leaves the other words
\* of the destination as they were, emits successfulRead(ahead), then an
\* IPbusError about the truncation, and returns false.
C12_TruncatedRead ==
    [][ValidatorStep =>
         \A i \in 0 .. Len(packet'.transactionsList) - 1 :
             TruncatedRead(packet', i) =>
                 LET tr == packet'.transactionsList[i + 1]
                     ahead == WordsAhead(packet', i)
                     old == packet.dest[i + 1]
                 IN  /\ ~packet'.ret
                     /\ SignalsAt(packet', i) =
                            <<Signal("successfulRead", "", ahead),
                              Signal("error", "read transaction truncated", IPbusError)>>
                     /\ packet'.dest[i + 1] =
                            IF tr.data.seg = "user"
                            THEN [k \in 1 .. Len(old) |->
                                     IF k <= ahead
                                     THEN Fetch(packet'.response,
                                                tr.responseHeader + k, packet'.junk)
                                     ELSE old[k]]
                            ELSE old]_vars

\* a read of two words into an array of the caller got one of them
C12_Witness ==
    /\ ValidatorRan
    /\ \E i \in 0 .. Len(packet.transactionsList) - 1 :
         /\ TruncatedRead(packet, i)
         /\ WordsAhead(packet, i) = 1
         /\ packet.transactionsList[i + 1].data.seg = "user"
         /\ packet.dest[i + 1] = <<PayloadAt(packet.transactionsList[i + 1].responseHeader + 1),
                                   Untouched>>

\* C13: when the validator comes to a transaction whose response header
\* passes the check and carries an info code other than 0, it emits the
\* IPbusError of that info code for the transaction and returns false,
\* whatever the type and however many payload words were received; and every
\* return of false comes with exactly one error signal.
C13_FaultOnInfoCode ==
    [][ValidatorStep =>
         /\ \A i \in 0 .. Len(packet'.transactionsList) - 1 :
                (/\ Reached(packet', i) /\ HeaderPasses(packet', i)
                 /\ InfoCode(ResponseHeader(packet', i)) # 0)
                => /\ ~packet'.ret
                   /\ \E k \in 1 .. Len(packet'.signals) :
                        /\ packet'.who[k] = i
                        /\ packet'.signals[k] = Signal("error", "info code", IPbusError)
         /\ ~packet'.ret => Cardinality(PktErrors(packet')) = 1]_vars

RequestHeader(p, i) == Fetch(p.request, p.transactionsList[i + 1].requestHeader, p.junk)
\* the words the request of transaction i asks the response header to declare
DeclaredWords(p, i) ==
    IF TypeID(RequestHeader(p, i)) \in {RMWbits, RMWsum} THEN 1
    ELSE Words(RequestHeader(p, i))

\* C14: when the validator returns true, every response transaction has the
\* type of its request transaction and declares the word count of the
\* request, and every destination of a read holds the words of the response
\* that follow its header, all of them.
C14_SuccessMeansDeclaredCounts ==
    [][(ValidatorStep /\ packet'.ret) =>
         \A i \in 0 .. Len(packet'.transactionsList) - 1 :
             LET tr == packet'.transactionsList[i + 1]
             IN  /\ TypeID(ResponseHeader(packet', i)) = TypeID(RequestHeader(packet', i))
                 /\ Words(ResponseHeader(packet', i)) = DeclaredWords(packet', i)
                 /\ (TypeID(RequestHeader(packet', i)) \in ReadTypes
                     /\ tr.data.seg = "user")
                    => packet'.dest[i + 1] =
                           [k \in 1 .. Words(RequestHeader(packet', i)) |->
                               Fetch(packet'.response, tr.responseHeader + k,
                                     packet'.junk)]]_vars

\* the response of p is the echo of its request: the packet header, every
\* transaction header as it was sent and the payload words reserved
EchoReceived(p) ==
    LET echo == ValReply(p, [at |-> 0, what |-> "echo", cut |-> 0])
    IN  /\ p.responseSize = Reserved(p)
        /\ \A k \in 1 .. Reserved(p) : Fetch(p.response, k - 1, p.junk) = echo[k]

\* C15: for every list of transactions the builder accepted, the response
\* that echoes the packet header and every transaction header and carries
\* the reserved payload words makes the validator return true, and every
\* destination of a read then holds the payload words of its transaction.
C15_RoundTrip ==
    [][(ValidatorStep /\ EchoReceived(packet')) =>
         /\ packet'.ret
         /\ \A i \in 0 .. Len(packet'.transactionsList) - 1 :
              LET tr == packet'.transactionsList[i + 1]
              IN  (TypeID(RequestHeader(packet', i)) \in ReadTypes
                   /\ tr.data.seg = "user")
                  => packet'.dest[i + 1] =
                         [k \in 1 .. Words(RequestHeader(packet', i)) |->
                             PayloadAt(tr.responseHeader + k)]]_vars

\* the datagrams of the call of t that transceive examined: those left when
\* a first datagram taken for a late status reply is dropped
Examined(t) ==
    IF /\ t.net.dgrams # <<>>
       /\ t.net.dgrams[1].n = 64
       /\ t.net.dgrams[1].words[1] = statusHeader
    THEN Tail(t.net.dgrams)
    ELSE t.net.dgrams

\* C16: when the datagram transceive examines has a first word other than
\* request[0], the call emits an error of type networkError and returns
\* false without calling processResponse: no destination is written and
\* neither successfulRead nor successfulWrite is emitted, also when the
\* words after the first are the response to the request.
C16_ForeignHeaderRejected ==
    [][(/\ SentStep
        /\ Examined(target') # <<>>
        /\ Examined(target')[1].n >= wordSize
        /\ Examined(target')[1].words[1] # Fetch(target.request, 0, target.junk))
         => /\ EmittedError(target', networkError)
            /\ ~target'.ret
            /\ target'.seen = <<>>
            /\ target'.dest = target.dest
            /\ ~Emitted(target', "successfulRead")
            /\ ~Emitted(target', "successfulWrite")]_vars

\* a response to a request with a read, whole but for the packet ID of its
\* first word, was rejected
C16_Witness ==
    /\ tgtOp = "transceive"
    /\ target.sent # <<>>
    /\ Len(target.net.dgrams) = 1
    /\ target.net.dgrams[1].n = wordSize * Len(target.net.dgrams[1].words)
    /\ target.net.dgrams[1].n > 2 * wordSize
    /\ target.net.dgrams[1].words[1] = PacketHeader(control, 1)
    /\ TypeID(target.net.dgrams[1].words[2]) \in ReadTypes
    /\ target.signals = <<Signal("error", "incorrect response", networkError)>>
    /\ ~target.ret

----------------------------------------------------------------------------
(* Claims about the calls that build a request and send it, IPbusTarget *)

\* C17: whatever calls came before, the request readRegister sends holds
\* one transaction, the read of one word from the address, and the call
\* returns the word of the response to it when transceive succeeds and
\* 0xFFFFFFFF when it fails.
C17_ReadRegisterIsOneRead ==
    [][tgtOp' = "readRegister" =>
         /\ target'.net.write = "ok" => target'.sent = <<3 * wordSize>>
         /\ Fetch(target'.request, 1, target'.junk) = TransactionHeader(ipread, 1, 0)
         /\ Fetch(target'.request, 2, target'.junk) \in AddressInputs
         /\ target'.value = IF target'.ret
                            THEN Fetch(target'.response, 2, target'.junk)
                            ELSE <<65535, 65535>>]_vars

----------------------------------------------------------------------------
(* Claims about calls in progress, IPbusTarget under SpecSlots *)

\* the calls in progress that have written a request to the socket
RoundTrips(t) == {k \in 1 .. Len(t.frames) : t.frames[k].sent}

\* C18: never are two round trips of one target, of transceive or of
\* checkStatus, in progress at once, and the slot of updateTimer never starts
\* while a call of transceive has sent its request and not returned, also
\* when a slot connected to a signal that transceive emits calls the target.
C18_RoundTripsSerialised ==
    /\ Cardinality(RoundTrips(target)) <= 1
    /\ \A k \in RoundTrips(target) : \A j \in k + 1 .. Len(target.frames) :
         target.frames[k].op = "transceive" => target.frames[j].op # "updateTimer"

----------------------------------------------------------------------------
(* Claims about the calls that change bits of a register, under SpecBits *)

\* bit k of the word w, 0 <= k <= 31
Bit(w, k) == IF k >= 16 THEN (w[1] \div Pow2(k - 16)) % 2 ELSE (w[2] \div Pow2(k)) % 2
Or32(a, b) == Not32(And32(Not32(a), Not32(b)))
\* what a register that holds old holds after the transaction whose header
\* is at index at of the request req
RegisterAfter(old, req, at, junk) ==
    LET h == Fetch(req, at, junk)
    IN  CASE TypeID(h) \in WriteTypes /\ Words(h) = 1 -> Fetch(req, at + 2, junk)
          [] TypeID(h) = RMWbits ->
               Or32(And32(old, Fetch(req, at + 2, junk)), Fetch(req, at + 3, junk))
          [] OTHER -> old
OldInputs == {<<0, 0>>, <<65535, 65535>>, <<23130, 42405>>}
\* the transaction the call with the arguments o.args left in the request of
\* o replaces bits shift .. shift + nbits - 1 of the register by the low
\* nbits bits of data, leaves the other bits, and is a write of one word
\* for nbits = 32 and an RMWbits otherwise
ChangesBits(o) ==
    LET data == o.args[1]
        nbits == o.args[2]
        shift == o.args[3]
        at == o.args[4]
        h == Fetch(o.request, at, o.junk)
    IN  /\ TypeID(h) = IF nbits = 32 THEN ipwrite ELSE RMWbits
        /\ nbits = 32 => Fetch(o.request, at + 2, o.junk) = data
        /\ \A old \in OldInputs : \A k \in 0 .. 31 :
             Bit(RegisterAfter(old, o.request, at, o.junk), k) =
                 IF shift <= k /\ k < shift + nbits THEN Bit(data, k - shift)
                 ELSE Bit(old, k)

\* C19: for nbits in 1 .. 32 and nbits + shift <= 32, the transaction that
\* addNBitsToChange and writeNbits put in the request sets bits shift ..
\* shift + nbits - 1 of the register to the low nbits bits of data and leaves
\* every other bit: a write of data for nbits = 32, otherwise an RMWbits
\* with the terms ~(mask << shift) and (data & mask) << shift.
C19_BitsReplaced ==
    [][/\ pktOp' = "addNBitsToChange" => ChangesBits(packet')
       /\ tgtOp' = "writeNbits" => ChangesBits(target')]_vars

\* the same of addNBitsToChange alone
C19_PacketBitsReplaced ==
    [][pktOp' = "addNBitsToChange" => ChangesBits(packet')]_vars

----------------------------------------------------------------------------
(* Claims about the sizes of the builder, under SpecPacket *)

\* the words of the request that follow the address of the transaction with
\* the header h
RequestPayload(h) ==
    CASE TypeID(h) \in WriteTypes -> Words(h)
      [] TypeID(h) = RMWbits -> 2
      [] TypeID(h) = RMWsum -> 1
      [] OTHER -> 0
\* the index in request behind the first n transactions of the list of p
RECURSIVE RequestEnd(_, _)
RequestEnd(p, n) ==
    IF n = 0 THEN 1
    ELSE RequestEnd(p, n - 1) + 2
         + RequestPayload(Fetch(p.request, RequestEnd(p, n - 1), p.junk))

\* C20: in every state of the builder request[0] is the control packet
\* header, the transactions of the list lie in the request in the order of
\* the list, each as header, address and payload, with the transaction IDs
\* 0, 1, ..., n - 1, and requestSize is 1 plus the sum over the list of 2 plus
\* the payload words; also after an addTransaction that was rejected.
C20_SizesAgreeWithList ==
    /\ Fetch(packet.request, 0, packet.junk) = PacketHeader(control, 0)
    /\ \A j \in 1 .. Len(packet.transactionsList) :
         LET tr == packet.transactionsList[j]
         IN  /\ tr.requestHeader = RequestEnd(packet, j - 1)
             /\ tr.address = tr.requestHeader + 1
             /\ TransactionID(Fetch(packet.request, tr.requestHeader, packet.junk))
                = j - 1
    /\ packet.requestSize = RequestEnd(packet, Len(packet.transactionsList))

----------------------------------------------------------------------------
(* Claims about the bounds of the arrays *)

AddStep == pktOp' \in {"addTransaction", "addWordToWrite", "addNBitsToChange"}

\* C21: no call that adds a transaction, in any state of the builder and for
\* any type and word count, stores a word at an index >= maxPacket of
\* request or records a response header or a response data slot at an index
\* >= maxPacket of response: the test of the sizes comes before every access
\* outside the arrays.
C21_AddStaysInsideArrays ==
    [][AddStep =>
         /\ ~packet'.oob
         /\ \A j \in 1 .. Len(packet'.transactionsList) :
              LET tr == packet'.transactionsList[j]
              IN  /\ tr.responseHeader < maxPacket
                  /\ tr.data.seg = "response" => tr.data.off < maxPacket]_vars

\* C22: the validator of a response of responseSize words reads no word of
\* response at an index >= responseSize, neither a transaction header nor a
\* payload word it copies (so the count of words ahead of a header is never
\* below zero), and it does not return true when the response header of
\* some transaction lies at an index >= responseSize.
C22_ReadsWithinResponse ==
    [][ValidatorStep =>
         /\ packet'.fetched < packet'.responseSize
         /\ packet'.ret =>
              \A j \in 1 .. Len(packet'.transactionsList) :
                  packet'.transactionsList[j].responseHeader < packet'.responseSize]_vars

====
